---- MODULE Spec2Model ----
(***************************************************************************)
(* Model of the Murmurator firmware (Firmware-idf/src/main.c): the         *)
(* streaming pipeline made of the TCP acceptor task, the two source tasks  *)
(* (microphone, ADC), the outbound FreeRTOS queue and the delivery task.   *)
(***************************************************************************)
EXTENDS Integers, Sequences, FiniteSets, TLC

(***************************************************************************)
(* Program constants.                                                      *)
(***************************************************************************)
MIC_BUFFER_SIZE == 256
ADC_BUFFER_SIZE == 256
SOURCE_MIC == 0
SOURCE_ADC == 1
QUEUE_LENGTH == 256
SOC_ADC_DIGI_RESULT_BYTES == 4
ERROR_LIMIT == 10
sizeof_int16_t == 2

\* sizeof(packet_header_t): packed, source + metadata + length + timestamp.
sizeof_packet_header_t == 1 + 1 + 2 + 8

\* sizeof(i2s_read_buf): int16_t[MIC_BUFFER_SIZE*2].
sizeof_i2s_read_buf == MIC_BUFFER_SIZE * 2 * sizeof_int16_t

\* sizeof(adc_dma_buf): uint8_t[ADC_BUFFER_SIZE*SOC_ADC_DIGI_RESULT_BYTES].
sizeof_adc_dma_buf == ADC_BUFFER_SIZE * SOC_ADC_DIGI_RESULT_BYTES

(***************************************************************************)
(* Bounds of the model (environment budgets, not program constants).       *)
(***************************************************************************)
\* Largest value of the microsecond clock.
MaxTime == 1
\* Client connection attempts the network makes.
MaxConns == 2
\* Largest descriptor number the socket layer hands out.
MaxFd == 2
\* Blocks each hardware source delivers in the general scenario.
GenBlocks == 2
\* Blocks the microphone delivers in the every-write-fails scenario.
FailBlocks == 13
\* Blocks delivered beyond the queue's capacity in the saturation scenario.
SatExtra == 2
\* Writes the stalled client still absorbs in the saturation scenario.
SatWindow == 2

Unlimited == 0 - 1
NoMsg == [none |-> TRUE]
Sources == {"mic", "adc"}
Tasks == <<"tcp_server", "outBound", "periodiclogger", "mic_task", "adc_task">>

(***************************************************************************)
(* Fixed-width integer helpers.                                            *)
(***************************************************************************)
Pow2(n) == 2 ^ n

ToUint16(v) == v % Pow2(16)

\* Conversion of an integer to int16_t (two's complement wrap).
ToInt16(v) == IF ToUint16(v) >= Pow2(15) THEN ToUint16(v) - Pow2(16) ELSE ToUint16(v)

RECURSIVE BitAnd(_, _)
BitAnd(a, b) ==
  IF a = 0 \/ b = 0 THEN 0
  ELSE (a % 2) * (b % 2) + 2 * BitAnd(a \div 2, b \div 2)

RECURSIVE BitOr(_, _)
BitOr(a, b) ==
  IF a = 0 THEN b
  ELSE IF b = 0 THEN a
  ELSE (IF (a % 2) + (b % 2) > 0 THEN 1 ELSE 0) + 2 * BitOr(a \div 2, b \div 2)

\* a << n for operands whose result fits the 32-bit type.
Shl(a, n) == a * Pow2(n)

(***************************************************************************)
(* Hardware content: what a read deposits in the task's buffer.  A block   *)
(* is identified by its pattern number; entry i is 0-based as in C.        *)
(***************************************************************************)
\* i2s_read_buf[i] after a read of pattern pat.
I2sRaw(pat, i) == ToInt16(i * 257 + pat * 4099)

\* The i-th adc_digi_output_data_t (type2) of adc_dma_buf.
AdcRecord(pat, i) ==
  [channel |-> (2 + i + 6 * pat) % 16, data |-> (2748 + 5 * i + pat) % 4096]

(***************************************************************************)
(* State.                                                                  *)
(***************************************************************************)
VARIABLES
  main_pc,         \* app_main: number of tasks created so far
  server_socket,   \* listening descriptor, -1 when none
  client_socket,   \* accepted descriptor, -1 when no client
  errors,          \* send_msg's static failure counter
  queue_created,   \* whether xQueueCreate has run
  outbound_queue,  \* the queue's contents, head first
  acc_pc,          \* tcp_server_task position
  dlv_pc,          \* OutBoundTask / send_msg position
  dlv_sample,      \* OutBoundTask's local msg_t
  src_pc,          \* position of mic_task and adc_task
  raw,             \* last block read by each source: size (bytes) and pattern
  sample,          \* QI2Smsg / QADCmsg local msg_t
  now,             \* esp_timer_get_time()
  crashed,         \* the firmware aborted (failed assert)
  \* environment
  env,             \* fixed scenario: read sizes and contents, send outcomes,
                   \* frames each source builds at most
  clients,         \* connection attempts still to come
  window,          \* writes the client still absorbs (Unlimited: any number)
  openConns,       \* accepted descriptors currently open
  \* history
  conn,            \* serial number of the current/last accepted connection
  built,           \* frames built so far by each source
  pushLog,         \* tags of frames in the order their pushes completed
  popLog,          \* tags of frames in the order they were dequeued
  popTime,         \* per source, timestamp of the frame dequeued last (0: none)
  lastWrite,       \* the last send() issued by send_msg
  consec,          \* failed frames in a row on the current connection
  ndisc,           \* times send_msg set client_socket to -1
  seen             \* what each source's last connectivity check observed

vars == <<main_pc, server_socket, client_socket, errors, queue_created,
          outbound_queue, acc_pc, dlv_pc, dlv_sample, src_pc, raw, sample, now,
          crashed, env, clients, window, openConns, conn, built, pushLog,
          popLog, popTime, lastWrite, consec, ndisc, seen>>

progVars == <<server_socket, client_socket, errors, queue_created,
              outbound_queue, acc_pc, dlv_pc, dlv_sample, src_pc, raw, sample,
              now, crashed>>

\* Position of a task in app_main's creation order.
TaskIndex(t) == CHOOSE i \in 1..Len(Tasks) : Tasks[i] = t

\* A task runs once app_main has created it, until the firmware aborts.
Running(t) == main_pc >= TaskIndex(t) /\ ~crashed

Fds == 0..MaxFd

\* The socket layer hands out the lowest descriptor not in use.
LowestFree(used) == CHOOSE fd \in Fds \ used : \A g \in Fds \ used : fd <= g

NoRaw == [size |-> 0, pat |-> 0]
NotSeen == [fd |-> -1, conn |-> 0]

(***************************************************************************)
(* Initial state: the globals as initialised at lines 63-66 and 180, every *)
(* task at its entry, app_main about to create the tasks.                  *)
(***************************************************************************)
InitProgram ==
  /\ main_pc = 0
  /\ server_socket = -1
  /\ client_socket = -1
  /\ errors = 0
  /\ queue_created = FALSE
  /\ outbound_queue = <<>>
  /\ acc_pc = "setup"
  /\ dlv_pc = "create"
  /\ dlv_sample = NoMsg
  /\ src_pc = [p \in Sources |-> "read"]
  /\ raw = [p \in Sources |-> NoRaw]
  /\ sample = [p \in Sources |-> NoMsg]
  /\ crashed = FALSE
  /\ openConns = {}
  /\ conn = 0
  /\ built = [p \in Sources |-> 0]
  /\ pushLog = <<>>
  /\ popLog = <<>>
  /\ popTime = [p \in Sources |-> 0]
  /\ lastWrite = [kind |-> "none"]
  /\ consec = 0
  /\ ndisc = 0
  /\ seen = [p \in Sources |-> NotSeen]

(***************************************************************************)
(* Environment scenarios.  Each fixes what the hardware and the network    *)
(* do: the byte counts and contents the reads return, how many blocks each *)
(* source delivers, whether writes can succeed, how many clients connect.  *)
(***************************************************************************)
\* Byte count of the small blocks: two samples (mic) or two records (ADC).
SmallSize == 8

Scenario(sizes, send, pats, blocks, nclients, win, t0, accept) ==
  /\ InitProgram
  /\ now = t0
  /\ env = [sizes |-> sizes, send |-> send, pats |-> pats, blocks |-> blocks,
            accept |-> accept]
  /\ clients = nclients
  /\ window = win

\* Both sources deliver a few small blocks; writes may succeed or fail.
InitMixed ==
  Scenario([p \in Sources |-> {SmallSize}], BOOLEAN, {0},
           [p \in Sources |-> GenBlocks], MaxConns, Unlimited, 0, BOOLEAN)

\* One source delivers enough blocks to pass the failure limit, every write
\* fails, and clients keep reconnecting.
InitFail ==
  \E q \in Sources :
    Scenario([p \in Sources |-> {SmallSize}], {FALSE}, {0},
             [p \in Sources |-> IF p = q THEN FailBlocks ELSE 0],
             MaxConns, Unlimited, MaxTime, BOOLEAN)

\* One source delivers more blocks than the queue holds to a client that
\* stops absorbing data after a few writes.
InitSat ==
  \E q \in Sources :
    Scenario([p \in Sources |-> {SmallSize}], {TRUE}, {0},
             [p \in Sources |-> IF p = q THEN QUEUE_LENGTH + SatExtra ELSE 0],
             1, SatWindow, MaxTime, BOOLEAN)

\* One source delivers blocks of one byte count, any that its read buffer
\* allows, and builds one frame.
ReadSizes(p) ==
  IF p = "mic" THEN 1..sizeof_i2s_read_buf ELSE 1..sizeof_adc_dma_buf

InitEnc ==
  \E q \in Sources :
    \E n \in ReadSizes(q) :
      Scenario([p \in Sources |-> {n}], {TRUE}, {0},
               [p \in Sources |-> IF p = q THEN 1 ELSE 0],
               1, Unlimited, 0, BOOLEAN)

\* One source delivers enough blocks to pass the failure limit, any write
\* may fail, clients keep reconnecting and accept never fails.
InitLive ==
  \E q \in Sources :
    Scenario([p \in Sources |-> {SmallSize}], BOOLEAN, {0},
             [p \in Sources |-> IF p = q THEN FailBlocks ELSE 0],
             MaxConns, Unlimited, MaxTime, {TRUE})

\* QI2Smsg / QADCmsg are handed a size one element past the capacity of the
\* frame buffer.  The read buffers of mic_task and adc_task (ReadSizes) are
\* too small for that, so this scenario drives the two functions over the
\* part of their int size argument that their own asserts guard.
OverBytes == (MIC_BUFFER_SIZE + 1) * SOC_ADC_DIGI_RESULT_BYTES

InitOver ==
  \E q \in Sources :
    Scenario([p \in Sources |-> {OverBytes}], {TRUE}, {0},
             [p \in Sources |-> IF p = q THEN 1 ELSE 0],
             1, Unlimited, 0, BOOLEAN)

Init == InitMixed \/ InitFail

(***************************************************************************)
(* Frame construction (QI2Smsg, QADCmsg).                                  *)
(***************************************************************************)
\* A source that skips its connectivity check.
Qmsg_never_disconnected(cs) == FALSE

\* QI2Smsg, line 218: if (client_socket < 0) return;
QI2Smsg_disconnected(cs) == cs < 0

\* QADCmsg, line 240: if (client_socket < 0) return;
QADCmsg_disconnected(cs) == cs < 0

\* mic_task: int samples = bytes_read / sizeof(int16_t);
mic_task_samples(bytes_read) == bytes_read \div sizeof_int16_t

\* int num_samples = size/2;
QI2Smsg_num_samples(size) == size \div 2

\* The copy loop keeping the even-indexed samples.
skipFirst_zero == 1 - 1

\* int skipFirst = 1;
skipFirst == 1

\* sample.buffer.data[j] = buffer[2 * j + skipFirst], j = 0 .. num_samples-1
\* (element j of the C array is element j+1 of the sequence).
QI2Smsg_data(pat, num_samples) ==
  [j \in 1..num_samples |-> I2sRaw(pat, 2 * (j - 1) + skipFirst)]

\* A header whose length is the raw sample count instead of num_samples.
QI2Smsg_header_raw_length(size, t) ==
  [source |-> SOURCE_MIC, metadata |-> 0, length |-> ToUint16(size),
   timestamp |-> t]

\* The header fields, lines 224-227; header.length is a uint16_t.
QI2Smsg_header(size, t) ==
  [source |-> SOURCE_MIC, metadata |-> 0,
   length |-> ToUint16(QI2Smsg_num_samples(size)), timestamp |-> t]

QI2Smsg_msg(pat, size, t) ==
  [header |-> QI2Smsg_header(size, t),
   buffer |-> [data |-> QI2Smsg_data(pat, QI2Smsg_num_samples(size)),
               end |-> QI2Smsg_num_samples(size)]]

\* int num_conv = size / SOC_ADC_DIGI_RESULT_BYTES;
QADCmsg_num_conv(size) == size \div SOC_ADC_DIGI_RESULT_BYTES

\* A packing that puts the channel in bits 8..11.
QADCmsg_pack_shift8(chan, data) ==
  BitOr(Shl(BitAnd(chan, 15), 8), BitAnd(data, 4095))

\* ((chan & 0xF) << 12) | (data & 0x0FFF), computed in uint32_t.
QADCmsg_pack(chan, data) ==
  BitOr(Shl(BitAnd(chan, 15), 12), BitAnd(data, 4095))

\* sample.buffer.data[i] = <packed value>, stored into an int16_t.
QADCmsg_data(pat, num_conv) ==
  [i \in 1..num_conv |->
     ToInt16(QADCmsg_pack(AdcRecord(pat, i - 1).channel, AdcRecord(pat, i - 1).data))]

\* A header whose length is the byte count instead of num_conv.
QADCmsg_header_byte_length(size, t) ==
  [source |-> SOURCE_ADC, metadata |-> 0, length |-> ToUint16(size),
   timestamp |-> t]

\* The header fields, lines 246-249.
QADCmsg_header(size, t) ==
  [source |-> SOURCE_ADC, metadata |-> 0,
   length |-> ToUint16(QADCmsg_num_conv(size)), timestamp |-> t]

QADCmsg_msg(pat, size, t) ==
  [header |-> QADCmsg_header(size, t),
   buffer |-> [data |-> QADCmsg_data(pat, QADCmsg_num_conv(size)),
               end |-> QADCmsg_num_conv(size)]]

(***************************************************************************)
(* The FreeRTOS queue as the program uses it.                              *)
(***************************************************************************)
\* A queue that inserts at the front.
xQueueSend_front(q, m) == <<m>> \o q

\* A queue in which a new item overtakes the one queued last.
xQueueSend_overtakes(q, m) ==
  IF q = <<>> THEN <<m>>
  ELSE SubSeq(q, 1, Len(q) - 1) \o <<m, q[Len(q)]>>

\* xQueueSend copies the item to the back of the queue.
xQueueSend(q, m) == Append(q, m)

\* A send that never waits for a free slot.
xQueueSend_never_blocked(q) == FALSE

\* xQueueSend with portMAX_DELAY blocks while no slot is free.
xQueueSend_blocked(q) == Len(q) >= QUEUE_LENGTH

\* xQueueReceive copies out the item at the front and removes it.
xQueueReceive_item(q) == Head(q)

xQueueReceive_rest(q) == Tail(q)

(***************************************************************************)
(* app_main: creates the five tasks in order.                              *)
(***************************************************************************)
app_main ==
  /\ ~crashed
  /\ main_pc < Len(Tasks)
  /\ main_pc' = main_pc + 1
  /\ UNCHANGED <<progVars, env, clients, window, openConns, conn, built,
                 pushLog, popLog, popTime, lastWrite, consec, ndisc, seen>>

(***************************************************************************)
(* tcp_server_task.                                                        *)
(***************************************************************************)
\* An acceptor that goes on to accept although the setup failed.
tcp_server_setup_no_return(r) == "accept"

\* Each failed setup call logs, (closes the socket,) deletes the task and
\* returns (lines 107-111, 117-121, 123-127); otherwise the accept loop.
tcp_server_after_setup(r) == IF r = "ok" THEN "accept" ELSE "setup_failed"

\* socket / bind / listen: any of the three may fail, which ends the task.
tcp_server_setup ==
  /\ Running("tcp_server")
  /\ acc_pc = "setup"
  /\ \E r \in {"ok", "socket", "bind", "listen"} :
       /\ server_socket' = IF r = "socket" THEN -1 ELSE LowestFree(openConns)
       /\ acc_pc' = tcp_server_after_setup(r)
  /\ UNCHANGED <<main_pc, client_socket, errors, queue_created, outbound_queue,
                 dlv_pc, dlv_sample, src_pc, raw, sample, now, crashed, env, clients, window, openConns, conn, built, pushLog, popLog, popTime,
                 lastWrite, consec, ndisc, seen>>

\* client_socket = accept(...); a failure leaves the loop, closes the
\* listening socket and deletes the task.
tcp_server_accept ==
  /\ Running("tcp_server")
  /\ acc_pc = "accept"
  /\ \E ok \in env.accept :
       /\ ok => clients > 0
       /\ IF ok
          THEN /\ Fds \ (openConns \cup {server_socket}) # {}
               /\ client_socket' = LowestFree(openConns \cup {server_socket})
               /\ openConns' = openConns \cup {LowestFree(openConns \cup {server_socket})}
                 /\ conn' = conn + 1
                 /\ clients' = clients - 1
                 /\ consec' = 0
                 /\ acc_pc' = "wait"
          ELSE /\ client_socket' = -1
               /\ acc_pc' = "deleted"
               /\ UNCHANGED <<openConns, conn, clients, consec>>
  /\ UNCHANGED <<main_pc, server_socket, errors, queue_created, outbound_queue,
                 dlv_pc, dlv_sample, src_pc, raw, sample, now, crashed, env, window, built, pushLog, popLog, popTime, lastWrite, ndisc, seen>>

\* An acceptor that goes back to accept without waiting.
tcp_server_never_waits(cs) == FALSE

\* An acceptor that never leaves its wait loop.
tcp_server_always_waits(cs) == TRUE

\* while (client_socket >= 0) vTaskDelay(...);
tcp_server_keep_waiting(cs) == cs >= 0

tcp_server_wait ==
  /\ Running("tcp_server")
  /\ acc_pc = "wait"
  /\ acc_pc' = IF tcp_server_keep_waiting(client_socket) THEN "wait" ELSE "accept"
  /\ UNCHANGED <<main_pc, server_socket, client_socket, errors, queue_created,
                 outbound_queue, dlv_pc, dlv_sample, src_pc, raw, sample, now,
                 crashed, env, clients, window, openConns, conn, built,
                 pushLog, popLog, popTime, lastWrite, consec, ndisc, seen>>

(***************************************************************************)
(* OutBoundTask and send_msg.                                              *)
(***************************************************************************)
\* outbound_queue = xQueueCreate(256, sizeof(msg_t));
OutBoundTask_create ==
  /\ Running("outBound")
  /\ dlv_pc = "create"
  /\ queue_created' = TRUE
  /\ dlv_pc' = "recv"
  /\ UNCHANGED <<main_pc, server_socket, client_socket, errors, outbound_queue,
                 acc_pc, dlv_sample, src_pc, raw, sample, now, crashed, env, clients, window, openConns, conn, built, pushLog, popLog, popTime,
                 lastWrite, consec, ndisc, seen>>

\* The item as OutBoundTask holds it, with the value client_socket had when
\* xQueueReceive returned (history).
Popped(m, cs) ==
  [header |-> m.header, buffer |-> m.buffer, tag |-> m.tag, gate |-> m.gate,
   raw |-> m.raw, popfd |-> cs]

\* xQueueReceive(outbound_queue, &sample, portMAX_DELAY): blocks while empty.
OutBoundTask_receive ==
  /\ Running("outBound")
  /\ dlv_pc = "recv"
  /\ outbound_queue # <<>>
  /\ dlv_sample' = Popped(xQueueReceive_item(outbound_queue), client_socket)
  /\ outbound_queue' = xQueueReceive_rest(outbound_queue)
  /\ popLog' = Append(popLog, xQueueReceive_item(outbound_queue).tag)
  /\ popTime' = [popTime EXCEPT ![xQueueReceive_item(outbound_queue).tag[1]] =
                   xQueueReceive_item(outbound_queue).header.timestamp]
  /\ dlv_pc' = "check"
  /\ UNCHANGED <<main_pc, server_socket, client_socket, errors, queue_created,
                 acc_pc, src_pc, raw, sample, now, crashed, env, clients,
                 window, openConns, conn, built, pushLog, lastWrite, consec,
                 ndisc, seen>>

\* send_msg, line 181: if (client_socket < 0) return;
send_msg_disconnected(cs) == cs < 0

send_msg_check ==
  /\ Running("outBound")
  /\ dlv_pc = "check"
  /\ IF send_msg_disconnected(client_socket)
     THEN dlv_pc' = "recv" /\ dlv_sample' = NoMsg
     ELSE dlv_pc' = "hdr" /\ dlv_sample' = dlv_sample
  /\ UNCHANGED <<main_pc, server_socket, client_socket, errors, queue_created,
                 outbound_queue, acc_pc, src_pc, raw, sample, now, crashed, env,
                 clients, window, openConns, conn, built, pushLog, popLog, popTime,
                 lastWrite, consec, ndisc, seen>>

\* A delivery task that drops the connection at any failed write.
send_msg_always_too_many(e) == TRUE

\* if (errors++ > 10): the test reads the counter before the increment.
send_msg_too_many(e) == e > ERROR_LIMIT

\* Outcomes of send() on descriptor fd: a closed descriptor always fails.
SendOutcomes(fd) == IF fd \in openConns THEN env.send ELSE {FALSE}

\* A send() returns only while the client absorbs data.
SendReturns == window # 0

WindowAfter == IF window = Unlimited THEN window ELSE window - 1

\* History of the writes.  hdrn / datan count the header and payload writes
\* issued for the frame being sent; orphan tells whether the byte stream of
\* the current connection holds a header whose payload write failed, and
\* before is that flag as it was when this write was issued.
PrevFor(t) ==
  IF lastWrite.kind # "none" /\ lastWrite.tag = t
  THEN [hdrn |-> lastWrite.hdrn, datan |-> lastWrite.datan]
  ELSE [hdrn |-> 0, datan |-> 0]

OrphanOn(c) ==
  IF lastWrite.kind # "none" /\ lastWrite.conn = c
  THEN lastWrite.orphan
  ELSE FALSE

WriteRecord(kind, nbytes, ok) ==
  [kind |-> kind, fd |-> client_socket, nbytes |-> nbytes,
   length |-> dlv_sample.header.length, tag |-> dlv_sample.tag, ok |-> ok,
   open |-> client_socket \in openConns,
   conn |-> conn, gate |-> dlv_sample.gate.conn,
   hdrn |-> PrevFor(dlv_sample.tag).hdrn + (IF kind = "hdr" THEN 1 ELSE 0),
   datan |-> PrevFor(dlv_sample.tag).datan + (IF kind = "data" THEN 1 ELSE 0),
   before |-> OrphanOn(conn),
   orphan |-> OrphanOn(conn) \/ (kind = "data" /\ ~ok)]

\* A failure branch that goes back to write the same frame again.
send_msg_failed_retry ==
  /\ errors' = errors + 1
  /\ consec' = consec + 1
  /\ dlv_sample' = dlv_sample
  /\ dlv_pc' = IF send_msg_too_many(errors) THEN "close" ELSE "hdr"

\* A failure branch that does not count the failure.
send_msg_failed_no_count ==
  /\ errors' = errors
  /\ consec' = consec + 1
  /\ IF send_msg_too_many(errors)
     THEN dlv_pc' = "close" /\ dlv_sample' = dlv_sample
     ELSE dlv_pc' = "recv" /\ dlv_sample' = NoMsg

\* The failure branch shared by both writes (lines 183-191 and 193-201):
\* count the failure, then close the connection or return.
send_msg_failed ==
  /\ errors' = errors + 1
  /\ consec' = consec + 1
  /\ IF send_msg_too_many(errors)
     THEN dlv_pc' = "close" /\ dlv_sample' = dlv_sample
     ELSE dlv_pc' = "recv" /\ dlv_sample' = NoMsg

\* A header write whose result is ignored: the payload write follows anyway.
send_msg_header_ignores_failure ==
  /\ Running("outBound")
  /\ dlv_pc = "hdr"
  /\ SendReturns
  /\ \E ok \in SendOutcomes(client_socket) :
       lastWrite' = WriteRecord("hdr", sizeof_packet_header_t, ok)
  /\ dlv_pc' = "data"
  /\ window' = WindowAfter
  /\ UNCHANGED <<main_pc, server_socket, client_socket, queue_created,
                 outbound_queue, acc_pc, src_pc, raw, sample, now, crashed, env,
                 clients, openConns, conn, built, pushLog, popLog, popTime, ndisc,
                 seen, errors, consec, dlv_sample>>

\* send(client_socket, &(msg->header), sizeof(packet_header_t), 0)
send_msg_header ==
  /\ Running("outBound")
  /\ dlv_pc = "hdr"
  /\ SendReturns
  /\ \E ok \in SendOutcomes(client_socket) :
       /\ lastWrite' = WriteRecord("hdr", sizeof_packet_header_t, ok)
       /\ IF ok
          THEN dlv_pc' = "data" /\ UNCHANGED <<errors, consec, dlv_sample>>
          ELSE send_msg_failed
  /\ window' = WindowAfter
  /\ UNCHANGED <<main_pc, server_socket, client_socket, queue_created,
                 outbound_queue, acc_pc, src_pc, raw, sample, now, crashed, env,
                 clients, openConns, conn, built, pushLog, popLog, popTime, ndisc,
                 seen>>

\* send(client_socket, &(msg->buffer), msg->buffer.end * sizeof(int16_t), 0);
\* on success errors = 0.
send_msg_data ==
  /\ Running("outBound")
  /\ dlv_pc = "data"
  /\ SendReturns
  /\ \E ok \in SendOutcomes(client_socket) :
       /\ lastWrite' = WriteRecord("data",
                                    dlv_sample.buffer.end * sizeof_int16_t, ok)
       /\ IF ok
          THEN /\ errors' = 0
               /\ consec' = 0
               /\ dlv_pc' = "recv"
               /\ dlv_sample' = NoMsg
          ELSE send_msg_failed
  /\ window' = WindowAfter
  /\ UNCHANGED <<main_pc, server_socket, client_socket, queue_created,
                 outbound_queue, acc_pc, src_pc, raw, sample, now, crashed, env,
                 clients, openConns, conn, built, pushLog, popLog, popTime, ndisc,
                 seen>>

\* close(client_socket);
send_msg_close ==
  /\ Running("outBound")
  /\ dlv_pc = "close"
  /\ openConns' = openConns \ {client_socket}
  /\ dlv_pc' = "clear"
  /\ UNCHANGED <<main_pc, server_socket, client_socket, errors, queue_created,
                 outbound_queue, acc_pc, dlv_sample, src_pc, raw, sample, now,
                 crashed, env, clients, window, conn, built, pushLog, popLog, popTime,
                 lastWrite, consec, ndisc, seen>>

\* client_socket = -1; then the log lines and return.
send_msg_clear ==
  /\ Running("outBound")
  /\ dlv_pc = "clear"
  /\ client_socket' = -1
  /\ ndisc' = ndisc + 1
  /\ dlv_pc' = "recv"
  /\ dlv_sample' = NoMsg
  /\ UNCHANGED <<main_pc, server_socket, errors, queue_created, outbound_queue,
                 acc_pc, src_pc, raw, sample, now, crashed, env, clients,
                 window, openConns, conn, built, pushLog, popLog, popTime, lastWrite,
                 consec, seen>>

(***************************************************************************)
(* mic_task / QI2Smsg and adc_task / QADCmsg.  The two source tasks have   *)
(* the same shape; p is "mic" or "adc".                                    *)
(***************************************************************************)
TaskOf(p) == IF p = "mic" THEN "mic_task" ELSE "adc_task"

\* The size argument the task passes on: samples for the mic, bytes for
\* the ADC.
SizeArg(p, bytes_read) ==
  IF p = "mic" THEN mic_task_samples(bytes_read) ELSE bytes_read

\* Capacity the assert compares against.
BufferSize(p) == IF p = "mic" THEN MIC_BUFFER_SIZE ELSE ADC_BUFFER_SIZE

Count(p, size) ==
  IF p = "mic" THEN QI2Smsg_num_samples(size) ELSE QADCmsg_num_conv(size)

Disconnected(p, cs) ==
  IF p = "mic" THEN QI2Smsg_disconnected(cs) ELSE QADCmsg_disconnected(cs)

Msg(p, pat, size, t) ==
  IF p = "mic" THEN QI2Smsg_msg(pat, size, t) ELSE QADCmsg_msg(pat, size, t)

\* The blocking hardware read and the test that follows it:
\* if (ret == ESP_OK && bytes_read > 0) Q...msg(buf, size);
hw_read(p) ==
  /\ Running(TaskOf(p))
  /\ src_pc[p] = "read"
  /\ \E ok \in BOOLEAN, n \in env.sizes[p] \cup {0}, pat \in env.pats :
       /\ (ok /\ n > 0) => built[p] < env.blocks[p]
       /\ IF ok /\ n > 0
          THEN /\ raw' = [raw EXCEPT ![p] = [size |-> SizeArg(p, n), pat |-> pat]]
               /\ src_pc' = [src_pc EXCEPT ![p] = "check"]
          ELSE UNCHANGED <<raw, src_pc>>
  /\ UNCHANGED <<main_pc, server_socket, client_socket, errors, queue_created,
                 outbound_queue, acc_pc, dlv_pc, dlv_sample, sample, now,
                 crashed, env, clients, window, openConns, conn, built, pushLog,
                 popLog, popTime, lastWrite, consec, ndisc, seen>>

\* if (client_socket < 0) return;
Qmsg_check(p) ==
  /\ Running(TaskOf(p))
  /\ src_pc[p] = "check"
  /\ IF Disconnected(p, client_socket)
     THEN /\ src_pc' = [src_pc EXCEPT ![p] = "read"]
          /\ raw' = [raw EXCEPT ![p] = NoRaw]
          /\ seen' = [seen EXCEPT ![p] = NotSeen]
     ELSE /\ src_pc' = [src_pc EXCEPT ![p] = "build"]
          /\ raw' = raw
          /\ seen' = [seen EXCEPT ![p] = [fd |-> client_socket, conn |-> conn]]
  /\ UNCHANGED <<main_pc, server_socket, client_socket, errors, queue_created,
                 outbound_queue, acc_pc, dlv_pc, dlv_sample, sample, now,
                 crashed, env, clients, window, openConns, conn, built,
                 pushLog, popLog, popTime, lastWrite, consec, ndisc>>

\* The count, the assert, the header (with the timestamp read from the
\* timer) and the copy loop.  A failed assert aborts the firmware.
Qmsg_build(p) ==
  /\ Running(TaskOf(p))
  /\ src_pc[p] = "build"
  /\ IF Count(p, raw[p].size) <= BufferSize(p)
     THEN \E t \in now..MaxTime :
            /\ now' = t
            /\ sample' = [sample EXCEPT ![p] =
                 [header |-> Msg(p, raw[p].pat, raw[p].size, t).header,
                  buffer |-> Msg(p, raw[p].pat, raw[p].size, t).buffer,
                  tag |-> <<p, built[p] + 1>>,
                  gate |-> seen[p],
                  raw |-> raw[p]]]
            /\ built' = [built EXCEPT ![p] = @ + 1]
            /\ src_pc' = [src_pc EXCEPT ![p] = "send"]
            /\ raw' = [raw EXCEPT ![p] = NoRaw]
            /\ seen' = [seen EXCEPT ![p] = NotSeen]
            /\ crashed' = crashed
     ELSE /\ crashed' = TRUE
          /\ UNCHANGED <<now, sample, built, src_pc, raw, seen>>
  /\ UNCHANGED <<main_pc, server_socket, client_socket, errors, queue_created,
                 outbound_queue, acc_pc, dlv_pc, dlv_sample, env, clients, window, openConns, conn, pushLog, popLog, popTime, lastWrite,
                 consec, ndisc>>

\* xQueueSend(outbound_queue, &sample, portMAX_DELAY); a null handle fails
\* the queue's configASSERT and aborts the firmware.
Qmsg_send(p) ==
  /\ Running(TaskOf(p))
  /\ src_pc[p] = "send"
  /\ queue_created => ~xQueueSend_blocked(outbound_queue)
  /\ IF queue_created
     THEN /\ outbound_queue' = xQueueSend(outbound_queue, sample[p])
          /\ pushLog' = Append(pushLog, sample[p].tag)
          /\ sample' = [sample EXCEPT ![p] = NoMsg]
          /\ src_pc' = [src_pc EXCEPT ![p] = "read"]
          /\ crashed' = crashed
     ELSE /\ crashed' = TRUE
          /\ UNCHANGED <<outbound_queue, pushLog, sample, src_pc>>
  /\ UNCHANGED <<main_pc, server_socket, client_socket, errors, queue_created,
                 acc_pc, dlv_pc, dlv_sample, raw, now, env, clients, window,
                 openConns, conn, built, popLog, popTime, lastWrite, consec, ndisc, seen>>

\* periodiclogger: int outBoundmsgs = uxQueueMessagesWaiting(outbound_queue);
\* the read changes nothing, but a null handle fails the queue's configASSERT
\* and aborts the firmware.
periodiclogger ==
  /\ Running("periodiclogger")
  /\ crashed' = ~queue_created
  /\ UNCHANGED <<main_pc, server_socket, client_socket, errors, queue_created,
                 outbound_queue, acc_pc, dlv_pc, dlv_sample, src_pc, raw,
                 sample, now, env, clients, window, openConns, conn, built,
                 pushLog, popLog, popTime, lastWrite, consec, ndisc, seen>>

mic_task_read == hw_read("mic")

QI2Smsg_check == Qmsg_check("mic")

QI2Smsg_build == Qmsg_build("mic")

QI2Smsg_send == Qmsg_send("mic")

adc_task_read == hw_read("adc")

QADCmsg_check == Qmsg_check("adc")

QADCmsg_build == Qmsg_build("adc")

QADCmsg_send == Qmsg_send("adc")

(***************************************************************************)
(* Specifications.                                                         *)
(***************************************************************************)
Next ==
  \/ app_main
  \/ tcp_server_setup
  \/ tcp_server_accept
  \/ tcp_server_wait
  \/ OutBoundTask_create
  \/ OutBoundTask_receive
  \/ send_msg_check
  \/ send_msg_header
  \/ send_msg_data
  \/ send_msg_close
  \/ send_msg_clear
  \/ periodiclogger
  \/ mic_task_read
  \/ QI2Smsg_check
  \/ QI2Smsg_build
  \/ QI2Smsg_send
  \/ adc_task_read
  \/ QADCmsg_check
  \/ QADCmsg_build
  \/ QADCmsg_send

Spec == Init /\ [][Next]_vars

\* The saturation scenario (with the failing one, which exercises the
\* disconnect path).
SpecSat == (InitSat \/ InitFail) /\ [][Next]_vars

\* The encoding scenario (with the failing one).
SpecEnc == (InitEnc \/ InitFail) /\ [][Next]_vars

\* The oversize scenario (with the mixed and the failing one).
SpecOver == (InitOver \/ InitMixed \/ InitFail) /\ [][Next]_vars

\* The reconnect scenario, the acceptor task being
\* scheduled fairly: it has priority 5 and every other task blocks or delays
\* in its loop, so a step it can take is eventually taken.
SpecLive ==
  /\ InitLive
  /\ [][Next]_vars
  /\ WF_vars(tcp_server_wait)
  /\ WF_vars(tcp_server_accept)

\* The delivery task scheduled fairly: it has the highest priority (7), so
\* whenever it is ready to run (not blocked in xQueueReceive or in send) it
\* runs.
OutBoundTask_fair ==
  /\ WF_vars(OutBoundTask_create)
  /\ WF_vars(OutBoundTask_receive)
  /\ WF_vars(send_msg_check)
  /\ WF_vars(send_msg_header)
  /\ WF_vars(send_msg_data)
  /\ WF_vars(send_msg_close)
  /\ WF_vars(send_msg_clear)

\* The saturation scenario (with the failing one), delivery scheduled fairly.
SpecDrain == (InitSat \/ InitFail) /\ [][Next]_vars /\ OutBoundTask_fair

\* The scenarios in which every send() returns, delivery scheduled fairly.
SpecDrainReturning == Init /\ [][Next]_vars /\ OutBoundTask_fair

(***************************************************************************)
(* Properties.                                                             *)
(***************************************************************************)
\* Every frame the program holds: queued, being built or pushed by a
\* source, or being written by the delivery task.
Frames ==
  {outbound_queue[i] : i \in 1..Len(outbound_queue)}
    \cup {sample[p] : p \in {q \in Sources : sample[q] # NoMsg}}
    \cup (IF dlv_sample # NoMsg THEN {dlv_sample} ELSE {})

QueueTags == [i \in 1..Len(outbound_queue) |-> outbound_queue[i].tag]

\* C1: on the first connection (counter started at 0) with every write
\* failing, once the delivery task has finished handling the 11th
\* consecutive failed frame the connection is Disconnected.
C1_DisconnectAtEleventh ==
  (env.send = {FALSE} /\ conn = 1 /\ consec = 11 /\ dlv_pc = "recv")
    => client_socket < 0

\* What the code does on the first connection: the connection survives
\* eleven consecutive failed frames and is dropped, once, while the twelfth
\* is handled.
DisconnectAtTwelfth ==
  conn = 1 =>
    /\ consec <= 12
    /\ consec <= 11 => (client_socket >= 0 /\ ndisc = 0 /\ dlv_pc \notin {"close", "clear"})
    /\ (consec = 12 /\ dlv_pc = "recv") => (client_socket < 0 /\ ndisc = 1)

\* C2: in every state where the connection is Disconnected because the
\* delivery task dropped it, the failure counter is 0.
C2_CounterResetOnDisconnect ==
  (ndisc > 0 /\ client_socket < 0) => errors = 0

\* C3: at most one accepted connection is open, and the acceptor is at
\* accept only while no client is connected and none is open.
C3_SingleClient ==
  /\ Cardinality(openConns) <= 1
  /\ acc_pc = "accept" => (client_socket < 0 /\ openConns = {})
  /\ client_socket >= 0 => openConns \subseteq {client_socket}

\* A second client is admitted after the first was dropped.
C3_Witness ==
  /\ conn = 2
  /\ ndisc = 1
  /\ openConns = {client_socket}

\* C4: the frames dequeued so far are, in order, the first frames whose
\* pushes completed, and the queue holds exactly the rest in push order.
C4_Fifo ==
  /\ Len(popLog) <= Len(pushLog)
  /\ pushLog = popLog \o QueueTags

\* Frames of both sources have been pushed and dequeued.
C4_Witness ==
  /\ Len(popLog) >= 3
  /\ \E i, j \in 1..Len(popLog) : popLog[i][1] = "mic" /\ popLog[j][1] = "adc"

\* C5: every frame was built after a connectivity check that observed a
\* connected client, and a source is past its check only if the check
\* observed one.
C5_ProducerGating ==
  /\ \A f \in Frames : f.gate.fd >= 0 /\ f.gate.conn >= 1
  /\ \A p \in Sources : src_pc[p] = "build" => seen[p].fd >= 0

\* A frame gated on a connection is still queued after that connection
\* was dropped.
C5_Witness ==
  /\ outbound_queue # <<>>
  /\ client_socket < 0
  /\ ndisc >= 1

\* C6: the queue never holds more than 256 frames; while it holds 256 no
\* push completes, the only change to it being the consumer's removal of
\* the head; and no frame is lost: the frames pushed are those dequeued
\* plus those queued.
C6_Saturation ==
  /\ [](/\ Len(outbound_queue) <= 256
        /\ Len(pushLog) = Len(popLog) + Len(outbound_queue))
  /\ [][Len(outbound_queue) = 256 =>
          /\ pushLog' = pushLog
          /\ \A p \in Sources : src_pc[p] = "send" => src_pc'[p] = "send"
          /\ outbound_queue' \in {outbound_queue, Tail(outbound_queue)}]_vars

\* The queue is full and a source is blocked in its push.
C6_Witness ==
  /\ Len(outbound_queue) = 256
  /\ \E p \in Sources : src_pc[p] = "send"

\* C7: every frame of the audio source has source 0 and every frame of the
\* ADC source has source 1, with a sample count in 0..256, in the header
\* and in the buffer.
C7_CountAndSource ==
  \A f \in Frames :
    /\ f.header.source = (IF f.tag[1] = "mic" THEN 0 ELSE 1)
    /\ f.header.length \in 0..256
    /\ f.buffer.end \in 0..256
    /\ Len(f.buffer.data) = f.buffer.end

\* A full mic block (1024 bytes) was queued as a frame of 256 samples.
C7_Witness ==
  \E i \in 1..Len(outbound_queue) :
    /\ outbound_queue[i].tag[1] = "mic"
    /\ outbound_queue[i].raw.size = 512
    /\ outbound_queue[i].header.length = 256

\* C8: an audio frame built from rawCount raw samples has rawCount/2
\* samples, sample j being raw sample 2*j + 1; 512 raw samples give 256
\* samples, the first a1 and the last a511.
C8_AudioSkip ==
  \A f \in {g \in Frames : g.tag[1] = "mic"} :
    /\ f.header.length = f.raw.size \div 2
    /\ Len(f.buffer.data) = f.raw.size \div 2
    /\ \A j \in 0..(f.raw.size \div 2 - 1) :
         f.buffer.data[j + 1] = I2sRaw(f.raw.pat, 2 * j + 1)
    /\ f.raw.size = 512 =>
         /\ f.header.length = 256
         /\ f.buffer.data[1] = I2sRaw(f.raw.pat, 1)
         /\ f.buffer.data[256] = I2sRaw(f.raw.pat, 511)

\* An audio frame built from 512 raw samples is being written.
C8_Witness ==
  /\ dlv_sample # NoMsg
  /\ dlv_sample.tag[1] = "mic"
  /\ dlv_sample.raw.size = 512
  /\ dlv_pc = "data"

\* The 16-bit pattern of an int16_t sample.
Bits16(v) == IF v < 0 THEN v + 65536 ELSE v

\* C9: an ADC frame built from bytesRead bytes has bytesRead/4 samples,
\* sample i carrying, as a 16-bit pattern, the channel of record i (low 4
\* bits) times 4096 plus its data (low 12 bits); channel 2 with data 0xABC
\* gives 0x2ABC.
C9_AdcPacking ==
  /\ QADCmsg_pack(2, 2748) = 10940
  /\ \A f \in {g \in Frames : g.tag[1] = "adc"} :
       /\ f.buffer.end = f.raw.size \div 4
       /\ Len(f.buffer.data) = f.raw.size \div 4
       /\ \A i \in 0..(f.raw.size \div 4 - 1) :
            Bits16(f.buffer.data[i + 1]) =
              (AdcRecord(f.raw.pat, i).channel % 16) * 4096
                + (AdcRecord(f.raw.pat, i).data % 4096)

\* A full ADC block was queued: its first record is channel 2 with data
\* 0xABC, and records of channels 8 and above give negative samples.
C9_Witness ==
  \E i \in 1..Len(outbound_queue) :
    /\ outbound_queue[i].tag[1] = "adc"
    /\ outbound_queue[i].raw = [size |-> 1024, pat |-> 0]
    /\ outbound_queue[i].buffer.data[1] = 10940
    /\ \E k \in 1..256 : outbound_queue[i].buffer.data[k] < 0

\* C10: a header write is 12 bytes, a payload write is twice the length
\* field of the same frame's header, and every frame's header length
\* equals its buffer's end.
C10_WireLength ==
  /\ lastWrite.kind = "hdr" => lastWrite.nbytes = 12
  /\ lastWrite.kind = "data" => lastWrite.nbytes = lastWrite.length * 2
  /\ \A f \in Frames : f.header.length = f.buffer.end

\* The payload of an ADC frame of two samples was written.
C10_Witness ==
  /\ lastWrite.kind = "data"
  /\ lastWrite.tag[1] = "adc"
  /\ lastWrite.nbytes = 4
  /\ lastWrite.ok

\* C11: a frame that was dequeued while the connection was Disconnected is
\* discarded without any write being attempted for it, and every write the
\* delivery task issued went to an open connection handle.
C11_PoppedDisconnectedDiscarded ==
  /\ (dlv_sample # NoMsg /\ dlv_sample.popfd < 0)
       => dlv_pc \notin {"hdr", "data", "close", "clear"}
  /\ lastWrite.kind # "none" => (lastWrite.open /\ lastWrite.fd >= 0)

\* What the code does: the test of line 181 decides, not the state at the
\* dequeue.  The delivery task writes only on the open handle that test
\* read, and a frame for which the test read a negative handle is dropped
\* with the counter and the stream untouched.
WritesOnOpenConnection ==
  /\ [](/\ dlv_pc \in {"hdr", "data"}
            => (client_socket >= 0 /\ client_socket \in openConns)
        /\ lastWrite.kind # "none" => (lastWrite.open /\ lastWrite.fd >= 0))
  /\ [][(dlv_pc = "check" /\ client_socket < 0 /\ dlv_pc' # "check")
          => (dlv_pc' = "recv" /\ errors' = errors /\ lastWrite' = lastWrite)]_vars

\* C12: a step that changes client_socket from negative to a descriptor is
\* the acceptor's successful accept; a step that changes it from a
\* descriptor to negative is the delivery task's clear, taken with the
\* failure counter above the limit; no step of a source task changes it.
C12_Ownership ==
  [][client_socket' # client_socket =>
       /\ UNCHANGED <<src_pc, raw, sample, built>>
       /\ IF client_socket < 0
          THEN /\ acc_pc = "accept" /\ acc_pc' = "wait"
               /\ client_socket' >= 0
               /\ conn' = conn + 1
               /\ dlv_pc' = dlv_pc
          ELSE /\ dlv_pc = "clear" /\ dlv_pc' = "recv"
               /\ client_socket' < 0
               /\ errors > ERROR_LIMIT
               /\ acc_pc' = acc_pc]_vars

\* The first connection was accepted and then dropped by the delivery task.
C12_Witness ==
  /\ conn = 1
  /\ ndisc = 1
  /\ client_socket < 0
  /\ errors > ERROR_LIMIT

\* C13: no frame is dequeued twice, no dequeued frame is in the queue or in
\* a producer's hands again, the delivery task holds only the frame it
\* dequeued last, and a frame gets at most one header write and at most one
\* payload write.
C13_ConsumedOnce ==
  /\ \A i, j \in 1..Len(popLog) : popLog[i] = popLog[j] => i = j
  /\ \A f \in Frames \ {dlv_sample} :
       \A j \in 1..Len(popLog) : f.tag # popLog[j]
  /\ dlv_sample # NoMsg => dlv_sample.tag = popLog[Len(popLog)]
  /\ lastWrite.kind # "none" =>
       /\ \E j \in 1..Len(popLog) : popLog[j] = lastWrite.tag
       /\ lastWrite.hdrn = 1
       /\ lastWrite.datan <= 1

\* A frame whose header write failed was dropped and the delivery task is
\* back at the queue with the connection still up.
C13_Witness ==
  /\ lastWrite.kind = "hdr"
  /\ ~lastWrite.ok
  /\ dlv_pc = "recv"
  /\ dlv_sample = NoMsg
  /\ client_socket >= 0
  /\ Len(popLog) >= 2

C15_SetupFatal ==
  /\ [](acc_pc = "setup_failed" =>
          /\ client_socket < 0
          /\ conn = 0
          /\ openConns = {}
          /\ outbound_queue = <<>> /\ pushLog = <<>> /\ popLog = <<>>
          /\ \A p \in Sources : sample[p] = NoMsg /\ built[p] = 0
          /\ dlv_sample = NoMsg
          /\ lastWrite.kind = "none")
  /\ []((acc_pc # "setup" /\ server_socket < 0) => acc_pc = "setup_failed")
  /\ [][acc_pc = "setup_failed" => acc_pc' = "setup_failed"]_vars

\* bind or listen failed; the delivery task waits on the queue and a source
\* has read a block that it is about to drop.
C15_Witness ==
  /\ acc_pc = "setup_failed"
  /\ server_socket >= 0
  /\ dlv_pc = "recv"
  /\ \E p \in Sources : src_pc[p] = "check"

\* C16: a step of the delivery task that completes a frame (header and
\* payload both written) sets the failure counter to 0; a failed header
\* write raises it by exactly 1 and is not followed by the payload write; a
\* failed payload write raises it by exactly 1 without a reset; a
\* successful header write alone leaves it unchanged, and no other step
\* changes it.
C16_CounterRule ==
  [][/\ (dlv_pc = "hdr" /\ dlv_pc' # "hdr") =>
          /\ lastWrite'.kind = "hdr"
          /\ IF lastWrite'.ok
             THEN dlv_pc' = "data" /\ errors' = errors
             ELSE dlv_pc' \in {"recv", "close"} /\ errors' = errors + 1
     /\ (dlv_pc = "data" /\ dlv_pc' # "data") =>
          /\ lastWrite'.kind = "data"
          /\ IF lastWrite'.ok
             THEN errors' = 0
             ELSE errors' = errors + 1
     /\ errors' # errors => dlv_pc \in {"hdr", "data"}]_vars

\* After one counted failure a header was written and its payload write
\* failed: the counter stands at 2.
C16_Witness ==
  /\ lastWrite.kind = "data"
  /\ ~lastWrite.ok
  /\ errors = 2
  /\ dlv_pc = "recv"

\* C17: the payload write of a frame is issued only after the header write
\* of the same frame succeeded, on the same handle and connection, with no
\* other write in between; and a header write never follows a successful
\* header write directly.
C17_WriteOrder ==
  /\ [](dlv_pc = "data" =>
          /\ lastWrite.kind = "hdr"
          /\ lastWrite.ok
          /\ lastWrite.tag = dlv_sample.tag
          /\ lastWrite.fd = client_socket
          /\ lastWrite.conn = conn)
  /\ [][lastWrite' # lastWrite =>
         /\ lastWrite'.kind = "data" =>
              /\ lastWrite.kind = "hdr"
              /\ lastWrite.ok
              /\ lastWrite.tag = lastWrite'.tag
              /\ lastWrite.fd = lastWrite'.fd
              /\ lastWrite.conn = lastWrite'.conn
         /\ lastWrite'.kind = "hdr" =>
              ~(lastWrite.kind = "hdr" /\ lastWrite.ok)]_vars

\* The second frame dequeued was written completely.
C17_Witness ==
  /\ lastWrite.kind = "data"
  /\ lastWrite.ok
  /\ Len(popLog) = 2
  /\ lastWrite.tag = popLog[2]

C19_NoCrossConnection ==
  lastWrite.kind # "none" => lastWrite.gate = lastWrite.conn

\* C20: no header is written successfully to a connection whose byte
\* stream already holds a header that was not followed by its payload.
C20_NoOrphanHeader ==
  ~(lastWrite.kind = "hdr" /\ lastWrite.ok /\ lastWrite.before)

\* C21: with the delivery task scheduled fairly, every frame that entered
\* the queue is eventually dequeued: whenever the queue holds frames it
\* eventually is empty (the sources deliver finitely many blocks in every
\* scenario, so this says the same); and whenever the queue is full a slot
\* eventually becomes free.
C21_Drain ==
  /\ (outbound_queue # <<>>) ~> (outbound_queue = <<>>)
  /\ (Len(outbound_queue) = QUEUE_LENGTH) ~> (Len(outbound_queue) < QUEUE_LENGTH)

\* C22: every frame the delivery task dequeues carries a timestamp that is
\* not smaller than the timestamp of the frame of the same source dequeued
\* before it.  (Across sources the order may be reversed: C22_Witness.)
C22_TimestampOrder ==
  [][popLog' # popLog =>
       Head(outbound_queue).header.timestamp
         >= popTime[Head(outbound_queue).tag[1]]]_vars

\* Two ADC frames and a mic frame were dequeued, the second ADC frame last:
\* it carries a smaller timestamp than the mic frame dequeued before it.
C22_Witness ==
  /\ Len(popLog) = 3
  /\ popLog[3] = <<"adc", 2>>
  /\ popLog[2][1] = "mic"
  /\ popTime["adc"] < popTime["mic"]

\* C23: the queue exists from the delivery task's first step on, and no
\* task ever used the queue handle before that step: the firmware is never
\* aborted by a push or a depth read on the null handle.
C23_QueueBeforeUse ==
  /\ queue_created <=> dlv_pc # "create"
  /\ crashed => queue_created

====
